---- MODULE Spec2Model ----
(***************************************************************************)
(* Context-Pruner: message scoring (scorer.ts), pruning (pruner.ts),       *)
(* configuration (config.ts) and the plugin hooks (index.ts).              *)
(*                                                                         *)
(* Scores are the code's doubles times 100 (0.45 is 45): every score the   *)
(* code produces is a multiple of 0.05 and the sums it forms (x + 0.1)     *)
(* compare as their decimal values do.  Positions are 0-based as in the    *)
(* code; At(s, i) reads s[i].  Policy numbers are integers.                *)
(***************************************************************************)
EXTENDS Integers, Sequences, FiniteSets, TLC

VARIABLES
    messages,        \* pruneMessages: the `messages` argument
    config,          \* pruneMessages: the `config` argument; index.ts: cfg
    aggressiveness,  \* pruneMessages: the `aggressiveness` argument, num/den
    result,          \* the PruneResult returned, or NoResult before the call
    toRemove,        \* pruneMessages: the local set toRemove at return
    raw,             \* resolveConfig: the `raw` argument
    lastState,       \* index.ts: module-scope lastState
    conversation,    \* the host's live message list (event.messages)
    hookReturn,      \* what before_agent_start returned
    message,         \* scoreMessage: the `msg` argument
    messageScore     \* what scoreMessage returned, or NoScore before the call

vars == <<messages, config, aggressiveness, result, toRemove, raw,
          lastState, conversation, hookReturn, message, messageScore>>

(***************************************************************************)
(* Bounds of the model.                                                    *)
(***************************************************************************)
MaxLen == 5

MaxPreserve == 1

Max(a, b) == IF a >= b THEN a ELSE b

Min(a, b) == IF a <= b THEN a ELSE b

Positions(s) == 0 .. (Len(s) - 1)

At(s, i) == s[i + 1]

(***************************************************************************)
(* scorer.ts: texts.  A text is known by what the code asks of it: its     *)
(* length, its trimmed length, which pattern families match it, its first  *)
(* 200 characters and the normalised set of its first 5 lines.             *)
(***************************************************************************)
EmptyText ==
    [len |-> 0, trimLen |-> 0, lowValue |-> FALSE, codeBlock |-> FALSE,
     inlineSpans |-> 0, decision |-> FALSE, error |-> FALSE,
     reference |-> FALSE, prefix |-> "", lines |-> {""}]

\* "ok"
TextOk ==
    [EmptyText EXCEPT !.len = 2, !.trimLen = 2, !.lowValue = TRUE,
                      !.prefix = "ok", !.lines = {"ok"}]

\* "short text"
TextShort ==
    [EmptyText EXCEPT !.len = 10, !.trimLen = 10,
                      !.prefix = "short text", !.lines = {"short text"}]

\* "let me look into that for you right now."
TextChat ==
    [EmptyText EXCEPT !.len = 40, !.trimLen = 40,
                      !.prefix = "let me look", !.lines = {"let me look"}]

\* "build ok: 12 files"  (a tool's output)
TextOut ==
    [EmptyText EXCEPT !.len = 18, !.trimLen = 18,
                      !.prefix = "build ok", !.lines = {"build ok: N files"}]

StringContent(t) == [kind |-> "string", text |-> t]

\* JavaScript truthiness of msg.content: an array is truthy, "" is not.
ContentTruthy(msg) ==
    \/ msg.content.kind = "parts"
    \/ msg.content.kind = "string" /\ msg.content.text.len > 0

extractText(msg) ==
    IF msg.content.kind = "undefined" THEN EmptyText ELSE msg.content.text

\* scoreMessage with the reference rule assigning 0.55 where the code raises
\* to at least 0.55.
scoreMessageReferenceAssigns(msg) ==
    LET text == extractText(msg) IN
    IF text.len = 0 /\ ContentTruthy(msg) THEN 50
    ELSE IF text.len = 0 THEN 10
    ELSE IF msg.role = "tool" THEN 45
    ELSE IF msg.tool_calls # {} THEN 50
    ELSE IF text.lowValue THEN 10
    ELSE
      LET s0 == 40
          s1 == IF text.trimLen < 20 /\ ~text.codeBlock
                THEN Max(s0 - 15, 15) ELSE s0
          s2 == IF text.codeBlock THEN Max(s1, 80) ELSE s1
          s3 == IF text.inlineSpans >= 3 THEN Max(s2, 65) ELSE s2
          s4 == IF text.decision THEN Max(s3, 75) ELSE s3
          s5 == IF text.error THEN Max(s4, 65) ELSE s4
          s6 == IF text.reference THEN 55 ELSE s5
          s7 == IF text.len > 500 THEN Max(s6, 55) ELSE s6
          s8 == IF text.len > 2000 THEN Max(s7, 65) ELSE s7
          s9 == IF msg.role = "system" THEN Max(s8, 50) ELSE s8
          s10 == IF msg.role = "user" THEN Min(s9 + 10, 100) ELSE s9
      IN Min(s10, 100)

\* scoreMessage with the low-value rule setting the score to 0.1 and going on
\* to the later rules where the code returns.
scoreMessageLowValueFallsThrough(msg) ==
    LET text == extractText(msg) IN
    IF text.len = 0 /\ ContentTruthy(msg) THEN 50
    ELSE IF text.len = 0 THEN 10
    ELSE IF msg.role = "tool" THEN 45
    ELSE IF msg.tool_calls # {} THEN 50
    ELSE
      LET s0 == IF text.lowValue THEN 10 ELSE 40
          s1 == IF ~text.lowValue /\ text.trimLen < 20 /\ ~text.codeBlock
                THEN Max(s0 - 15, 15) ELSE s0
          s2 == IF text.codeBlock THEN Max(s1, 80) ELSE s1
          s3 == IF text.inlineSpans >= 3 THEN Max(s2, 65) ELSE s2
          s4 == IF text.decision THEN Max(s3, 75) ELSE s3
          s5 == IF text.error THEN Max(s4, 65) ELSE s4
          s6 == IF text.reference THEN Max(s5, 55) ELSE s5
          s7 == IF text.len > 500 THEN Max(s6, 55) ELSE s6
          s8 == IF text.len > 2000 THEN Max(s7, 65) ELSE s7
          s9 == IF msg.role = "system" THEN Max(s8, 50) ELSE s8
          s10 == IF msg.role = "user" THEN Min(s9 + 10, 100) ELSE s9
      IN Min(s10, 100)

\* scoreMessage with a user boost of 1.0 for 0.1 and neither clamp.
scoreMessageUnclamped(msg) ==
    LET text == extractText(msg) IN
    IF text.len = 0 /\ ContentTruthy(msg) THEN 50
    ELSE IF text.len = 0 THEN 10
    ELSE IF msg.role = "tool" THEN 45
    ELSE IF msg.tool_calls # {} THEN 50
    ELSE IF text.lowValue THEN 10
    ELSE
      LET s0 == 40
          s1 == IF text.trimLen < 20 /\ ~text.codeBlock
                THEN Max(s0 - 15, 15) ELSE s0
          s2 == IF text.codeBlock THEN Max(s1, 80) ELSE s1
          s3 == IF text.inlineSpans >= 3 THEN Max(s2, 65) ELSE s2
          s4 == IF text.decision THEN Max(s3, 75) ELSE s3
          s5 == IF text.error THEN Max(s4, 65) ELSE s4
          s6 == IF text.reference THEN Max(s5, 55) ELSE s5
          s7 == IF text.len > 500 THEN Max(s6, 55) ELSE s6
          s8 == IF text.len > 2000 THEN Max(s7, 65) ELSE s7
          s9 == IF msg.role = "system" THEN Max(s8, 50) ELSE s8
          s10 == IF msg.role = "user" THEN s9 + 100 ELSE s9
      IN s10

scoreMessage(msg) ==
    LET text == extractText(msg) IN
    IF text.len = 0 /\ ContentTruthy(msg) THEN 50
    ELSE IF text.len = 0 THEN 10
    ELSE IF msg.role = "tool" THEN 45
    ELSE IF msg.tool_calls # {} THEN 50
    ELSE IF text.lowValue THEN 10
    ELSE
      LET s0 == 40
          s1 == IF text.trimLen < 20 /\ ~text.codeBlock
                THEN Max(s0 - 15, 15) ELSE s0
          s2 == IF text.codeBlock THEN Max(s1, 80) ELSE s1
          s3 == IF text.inlineSpans >= 3 THEN Max(s2, 65) ELSE s2
          s4 == IF text.decision THEN Max(s3, 75) ELSE s3
          s5 == IF text.error THEN Max(s4, 65) ELSE s4
          s6 == IF text.reference THEN Max(s5, 55) ELSE s5
          s7 == IF text.len > 500 THEN Max(s6, 55) ELSE s6
          s8 == IF text.len > 2000 THEN Max(s7, 65) ELSE s7
          s9 == IF msg.role = "system" THEN Max(s8, 50) ELSE s8
          s10 == IF msg.role = "user" THEN Min(s9 + 10, 100) ELSE s9
      IN Min(s10, 100)

\* findRepetitiveToolOutputs flagging the earlier record of a repeating pair.
findRepetitiveToolOutputsFlaggingEarlier(msgs) ==
    { i \in Positions(msgs) :
        /\ i + 1 < Len(msgs)
        /\ At(msgs, i).role = "tool"
        /\ At(msgs, i + 1).role = "tool"
        /\ LET a == extractText(At(msgs, i))
               b == extractText(At(msgs, i + 1))
           IN /\ a.len > 0
              /\ b.len > 0
              /\ \/ a.prefix = b.prefix
                 \/ /\ Cardinality(a.lines) > 0
                    /\ 5 * Cardinality(a.lines \cap b.lines)
                         > 4 * Cardinality(a.lines) }

findRepetitiveToolOutputs(msgs) ==
    { i \in Positions(msgs) :
        /\ i >= 1
        /\ At(msgs, i).role = "tool"
        /\ At(msgs, i - 1).role = "tool"
        /\ LET a == extractText(At(msgs, i - 1))
               b == extractText(At(msgs, i))
           IN /\ a.len > 0
              /\ b.len > 0
              /\ \/ a.prefix = b.prefix
                 \/ /\ Cardinality(a.lines) > 0
                    /\ 5 * Cardinality(a.lines \cap b.lines)
                         > 4 * Cardinality(a.lines) }

(***************************************************************************)
(* The records the sequences are drawn from.                               *)
(***************************************************************************)
Message(role, content, id, calls) ==
    [role |-> role, content |-> content, tool_call_id |-> id,
     tool_calls |-> calls]

\* user "ok"                                      scores 0.1
Ack == Message("user", StringContent(TextOk), "", {})

\* assistant "short text"                         scores 0.25
Short == Message("assistant", StringContent(TextShort), "", {})

\* assistant generic text                         scores 0.4
Chat == Message("assistant", StringContent(TextChat), "", {})

\* assistant invoking tool call "a"               scores 0.5
CallA == Message("assistant", StringContent(TextChat), "", {"a"})

\* the output of tool call "a"                    scores 0.45, repeated 0.2
OutA == Message("tool", StringContent(TextOut), "a", {})

MessageKinds == {Ack, Short, CallA, OutA}

(***************************************************************************)
(* config.ts                                                               *)
(***************************************************************************)
DEFAULTS ==
    [maxMessages |-> 100, targetMessages |-> 60, minImportance |-> 30,
     preserveRecent |-> 10, preserveFirst |-> 3, autoPrune |-> TRUE]

\* A value of the raw plugin configuration: a number, a boolean, or anything
\* else (a missing key, a string, null).
Num(v) == [type |-> "number", value |-> v]

Bool(b) == [type |-> "boolean", value |-> b]

Other == [type |-> "undefined", value |-> 0]

\* `undefined`: the raw configuration when none is given; cfg before register.
Undefined == [undefined |-> TRUE]

\* The values read from raw, before "Validate constraints".
readRaw(r) ==
    [maxMessages |->
        IF r.maxMessages.type = "number" /\ r.maxMessages.value >= 20
        THEN r.maxMessages.value ELSE DEFAULTS.maxMessages,
     targetMessages |->
        IF r.targetMessages.type = "number" /\ r.targetMessages.value >= 10
        THEN r.targetMessages.value ELSE DEFAULTS.targetMessages,
     minImportance |->
        IF /\ r.minImportance.type = "number"
           /\ r.minImportance.value >= 0
           /\ r.minImportance.value <= 100
        THEN r.minImportance.value ELSE DEFAULTS.minImportance,
     preserveRecent |->
        IF r.preserveRecent.type = "number" /\ r.preserveRecent.value >= 1
        THEN r.preserveRecent.value ELSE DEFAULTS.preserveRecent,
     preserveFirst |->
        IF r.preserveFirst.type = "number" /\ r.preserveFirst.value >= 1
        THEN r.preserveFirst.value ELSE DEFAULTS.preserveFirst,
     autoPrune |->
        IF r.autoPrune.type = "boolean"
        THEN r.autoPrune.value ELSE DEFAULTS.autoPrune]

\* "Validate constraints": the three assignments, in the code's order.
validateConstraints(c0) ==
    LET c1 == IF c0.maxMessages <= c0.targetMessages
              THEN [c0 EXCEPT !.maxMessages = c0.targetMessages + 40]
              ELSE c0
        c2 == IF c1.preserveRecent >= c1.targetMessages
              THEN [c1 EXCEPT !.preserveRecent = Max(1, c1.targetMessages - 5)]
              ELSE c1
        c3 == IF c2.preserveFirst + c2.preserveRecent >= c2.targetMessages
              THEN [c2 EXCEPT !.preserveFirst =
                       Max(1, c2.targetMessages - c2.preserveRecent - 5)]
              ELSE c2
    IN c3

resolveConfig(r) ==
    IF r = Undefined THEN DEFAULTS ELSE validateConstraints(readRaw(r))

(***************************************************************************)
(* pruner.ts                                                               *)
(***************************************************************************)
\* The position a tool result links to: the nearest earlier record whose
\* tool_calls holds its tool_call_id (the inner loop of buildToolPairs).
CallOf(msgs, i) ==
    LET msg == At(msgs, i)
        J == { j \in 0 .. (i - 1) : msg.tool_call_id \in At(msgs, j).tool_calls }
    IN IF msg.role = "tool" /\ msg.tool_call_id # "" /\ J # {}
       THEN { CHOOSE j \in J : \A k \in J : k <= j }
       ELSE {}

\* The map of position -> set of linked positions; a position without an
\* entry in the code's Map has the empty set here.
buildToolPairs(msgs) ==
    [ p \in Positions(msgs) |->
        CallOf(msgs, p) \cup { q \in Positions(msgs) : p \in CallOf(msgs, q) } ]

\* Math.round(target / aggressiveness) for aggressiveness = num/den > 0:
\* Math.round rounds halves up.
MathRoundDiv(target, aggr) ==
    (2 * target * aggr.den + aggr.num) \div (2 * aggr.num)

\* effectiveTarget with the aggressiveness left out of the division.
effectiveTargetIgnoringAggressiveness(cfg, aggr) ==
    Max(cfg.preserveFirst + cfg.preserveRecent + 1, cfg.targetMessages)

\* effectiveTarget without the floor preserveFirst + preserveRecent + 1.
effectiveTargetNoFloor(cfg, aggr) ==
    MathRoundDiv(cfg.targetMessages, aggr)

\* effectiveTarget multiplying by the aggressiveness where the code divides.
effectiveTargetMultiplying(cfg, aggr) ==
    Max(cfg.preserveFirst + cfg.preserveRecent + 1,
        (2 * cfg.targetMessages * aggr.num + aggr.den) \div (2 * aggr.den))

effectiveTarget(cfg, aggr) ==
    Max(cfg.preserveFirst + cfg.preserveRecent + 1,
        MathRoundDiv(cfg.targetMessages, aggr))

isProtected(i, total, cfg) ==
    LET isFirst == i < cfg.preserveFirst
        isRecent == i >= total - cfg.preserveRecent
        isLast == i = total - 1
    IN isFirst \/ isRecent \/ isLast

\* The score used for ranking and statistics: scoreMessage, capped at 0.2
\* for a repetitive tool output.
penalizedScore(msgs, i) ==
    LET score == scoreMessage(At(msgs, i))
    IN IF i \in findRepetitiveToolOutputs(msgs) THEN Min(score, 20) ELSE score

scored(msgs, cfg) ==
    [ i \in Positions(msgs) |->
        [index |-> i,
         score |-> penalizedScore(msgs, i),
         protected |-> isProtected(i, Len(msgs), cfg)] ]

\* compare with the tiers the wrong way round (bBelowMin - aBelowMin).
compareTierFlipped(a, b, cfg) ==
    LET aBelowMin == IF a.score < cfg.minImportance THEN 0 ELSE 1
        bBelowMin == IF b.score < cfg.minImportance THEN 0 ELSE 1
    IN IF aBelowMin # bBelowMin THEN bBelowMin - aBelowMin
       ELSE a.score - b.score

\* compare ranking the highest score first (b.score - a.score).
compareDescending(a, b, cfg) ==
    LET aBelowMin == IF a.score < cfg.minImportance THEN 0 ELSE 1
        bBelowMin == IF b.score < cfg.minImportance THEN 0 ELSE 1
    IN IF aBelowMin # bBelowMin THEN aBelowMin - bBelowMin
       ELSE b.score - a.score

\* The comparator handed to Array.prototype.sort.
compare(a, b, cfg) ==
    LET aBelowMin == IF a.score < cfg.minImportance THEN 0 ELSE 1
        bBelowMin == IF b.score < cfg.minImportance THEN 0 ELSE 1
    IN IF aBelowMin # bBelowMin THEN aBelowMin - bBelowMin
       ELSE a.score - b.score

\* Array.prototype.sort is stable: x goes after every element that does not
\* compare greater than it.
RECURSIVE insertSorted(_, _, _)
insertSorted(s, x, cfg) ==
    IF s = <<>> THEN <<x>>
    ELSE IF compare(s[Len(s)], x, cfg) > 0
         THEN Append(insertSorted(SubSeq(s, 1, Len(s) - 1), x, cfg), s[Len(s)])
         ELSE Append(s, x)

RECURSIVE sortFrom(_, _, _, _)
sortFrom(sc, i, acc, cfg) ==
    IF i \notin DOMAIN sc THEN acc
    ELSE sortFrom(sc, i + 1,
                  IF sc[i].protected THEN acc ELSE insertSorted(acc, sc[i], cfg),
                  cfg)

\* scored.filter(not protected).sort(...), as the sequence of candidates.
prunable(sc, cfg) == sortFrom(sc, 0, <<>>, cfg)

\* pairCluster without the test `!scored[t].protected` on the transitive step.
pairClusterUnfiltered(candidate, pairedIndices, toolPairs, sc) ==
    {candidate} \cup pairedIndices
    \cup UNION { toolPairs[idx] : idx \in pairedIndices }

\* pairCluster without the transitive step: the candidate and its direct
\* partners only.
pairClusterDirectOnly(candidate, pairedIndices, toolPairs, sc) ==
    {candidate} \cup pairedIndices

\* What one candidate with paired positions adds to toRemove.
pairCluster(candidate, pairedIndices, toolPairs, sc) ==
    {candidate} \cup pairedIndices
    \cup { t \in UNION { toolPairs[idx] : idx \in pairedIndices } :
             ~sc[t].protected }

\* The removal loop `for (const candidate of prunable)`, from candidate k on.
RECURSIVE removalLoop(_, _, _, _, _, _)
removalLoop(cands, k, removed, toolPairs, sc, needToRemove) ==
    IF k > Len(cands) THEN removed
    ELSE IF Cardinality(removed) >= needToRemove THEN removed
    ELSE
      LET candidate == cands[k].index
          pairedIndices == toolPairs[candidate]
      IN IF candidate \in removed
         THEN removalLoop(cands, k + 1, removed, toolPairs, sc, needToRemove)
         ELSE IF pairedIndices # {}
         THEN IF \E idx \in pairedIndices : sc[idx].protected
              THEN removalLoop(cands, k + 1, removed, toolPairs, sc, needToRemove)
              ELSE LET grown == removed \cup
                                  pairCluster(candidate, pairedIndices, toolPairs, sc)
                   IN IF Cardinality(grown) >= needToRemove THEN grown
                      ELSE removalLoop(cands, k + 1, grown, toolPairs, sc,
                                       needToRemove)
         ELSE removalLoop(cands, k + 1, removed \cup {candidate}, toolPairs, sc,
                          needToRemove)

\* selectToRemove with needToRemove one too large.
selectToRemoveOffByOne(msgs, cfg, aggr) ==
    LET total == Len(msgs)
        target == effectiveTarget(cfg, aggr)
        sc == scored(msgs, cfg)
    IN IF total = 0 \/ total <= target THEN {}
       ELSE removalLoop(prunable(sc, cfg), 1, {}, buildToolPairs(msgs), sc,
                        total - target + 1)

\* selectToRemove leaving the loop after its first removal.
selectToRemoveOnce(msgs, cfg, aggr) ==
    LET total == Len(msgs)
        target == effectiveTarget(cfg, aggr)
        sc == scored(msgs, cfg)
    IN IF total = 0 \/ total <= target THEN {}
       ELSE removalLoop(prunable(sc, cfg), 1, {}, buildToolPairs(msgs), sc,
                        1)

\* The set toRemove when the loop ends ({} on the two early returns).
selectToRemove(msgs, cfg, aggr) ==
    LET total == Len(msgs)
        target == effectiveTarget(cfg, aggr)
        sc == scored(msgs, cfg)
    IN IF total = 0 \/ total <= target THEN {}
       ELSE removalLoop(prunable(sc, cfg), 1, {}, buildToolPairs(msgs), sc,
                        total - target)

\* keptFrom testing the position after the one it copies.
RECURSIVE keptFromShifted(_, _, _)
keptFromShifted(msgs, i, removed) ==
    IF i >= Len(msgs) THEN <<>>
    ELSE IF (i + 1) \in removed THEN keptFromShifted(msgs, i + 1, removed)
         ELSE <<At(msgs, i)>> \o keptFromShifted(msgs, i + 1, removed)

RECURSIVE keptFrom(_, _, _)
keptFrom(msgs, i, removed) ==
    IF i >= Len(msgs) THEN <<>>
    ELSE IF i \in removed THEN keptFrom(msgs, i + 1, removed)
         ELSE <<At(msgs, i)>> \o keptFrom(msgs, i + 1, removed)

RECURSIVE removedScoresFrom(_, _, _, _)
removedScoresFrom(msgs, i, removed, sc) ==
    IF i >= Len(msgs) THEN <<>>
    ELSE IF i \in removed
         THEN <<sc[i].score>> \o removedScoresFrom(msgs, i + 1, removed, sc)
         ELSE removedScoresFrom(msgs, i + 1, removed, sc)

RECURSIVE sumOf(_)
sumOf(s) == IF s = <<>> THEN 0 ELSE s[1] + sumOf(Tail(s))

\* min, max and avg of the removed scores; avg is the fraction sum/count.
scoreStats(arr) ==
    IF arr = <<>> THEN [min |-> 0, max |-> 0, avg |-> [sum |-> 0, count |-> 1]]
    ELSE [min |-> CHOOSE s \in { arr[k] : k \in DOMAIN arr } :
                     \A k \in DOMAIN arr : s <= arr[k],
          max |-> CHOOSE s \in { arr[k] : k \in DOMAIN arr } :
                     \A k \in DOMAIN arr : s >= arr[k],
          avg |-> [sum |-> sumOf(arr), count |-> Len(arr)]]

\* "Build result": kept, removedCount, originalCount, removedScores.
buildResult(msgs, removed, sc) ==
    [kept |-> keptFrom(msgs, 0, removed),
     removedCount |-> Cardinality(removed),
     originalCount |-> Len(msgs),
     removedScores |-> scoreStats(removedScoresFrom(msgs, 0, removed, sc))]

pruneMessages(msgs, cfg, aggr) ==
    IF Len(msgs) = 0
    THEN [kept |-> <<>>, removedCount |-> 0, originalCount |-> 0,
          removedScores |-> scoreStats(<<>>)]
    ELSE IF Len(msgs) <= effectiveTarget(cfg, aggr)
    THEN [kept |-> msgs, removedCount |-> 0, originalCount |-> Len(msgs),
          removedScores |-> scoreStats(<<>>)]
    ELSE buildResult(msgs, selectToRemove(msgs, cfg, aggr), scored(msgs, cfg))

(***************************************************************************)
(* Inputs of pruneMessages.                                                *)
(***************************************************************************)
NoResult == [kept |-> <<>>, removedCount |-> -1, originalCount |-> -1,
             removedScores |-> scoreStats(<<>>)]

SmallSequences == UNION { [1 .. n -> MessageKinds] : n \in 0 .. MaxLen }

\* The scenario of 100 generic records.
ScenarioMessages == [ i \in 1 .. 100 |-> Chat ]

TargetValues == {3}

MinImportanceValues == {30, 50}

PruneConfigs ==
    { [DEFAULTS EXCEPT !.targetMessages = t, !.minImportance = m,
                       !.preserveRecent = r, !.preserveFirst = f] :
        t \in TargetValues, m \in MinImportanceValues,
        r \in 0 .. MaxPreserve, f \in 0 .. MaxPreserve }

\* 0.5 (gentle), 1.0 (the default), 2.0 (aggressive)
Normal == [num |-> 1, den |-> 1]

AggressivenessValues == { [num |-> 1, den |-> 2], Normal, [num |-> 2, den |-> 1] }

NoState == [messages |-> <<>>, set |-> FALSE]

\* No scoreMessage call is under way.
NoMessage == Message("", [kind |-> "undefined"], "", {})

NoScore == -1

NoReturn == [returned |-> FALSE]

InitPrune ==
    /\ \/ /\ messages \in SmallSequences
          /\ config \in PruneConfigs
          /\ aggressiveness \in AggressivenessValues
       \/ /\ messages = ScenarioMessages
          /\ config = DEFAULTS
          /\ aggressiveness = Normal
    /\ result = NoResult
    /\ toRemove = {}
    /\ raw = [given |-> FALSE]
    /\ lastState = NoState
    /\ conversation = <<>>
    /\ hookReturn = NoReturn
    /\ message = NoMessage
    /\ messageScore = NoScore

\* A call pruneMessages(messages, config, aggressiveness).
CallPruneMessages ==
    /\ result = NoResult
    /\ result' = pruneMessages(messages, config, aggressiveness)
    /\ toRemove' = selectToRemove(messages, config, aggressiveness)
    /\ UNCHANGED <<messages, config, aggressiveness, raw, lastState,
                   conversation, hookReturn, message,
                   messageScore>>

NextPrune == CallPruneMessages

SpecPrune == InitPrune /\ [][NextPrune]_vars

Called == result # NoResult

(***************************************************************************)
(* What the properties of a prune result speak of.                         *)
(***************************************************************************)
Total == Len(messages)

\* max(preserveFirst + preserveRecent + 1, round(targetMessages / aggressiveness))
StatedTarget ==
    Max(config.preserveFirst + config.preserveRecent + 1,
        (2 * config.targetMessages * aggressiveness.den + aggressiveness.num)
            \div (2 * aggressiveness.num))

ProtectedAt(i) ==
    \/ i < config.preserveFirst
    \/ i >= Total - config.preserveRecent
    \/ i = Total - 1

ScoreAt(i) == penalizedScore(messages, i)

PairedWith(i) == buildToolPairs(messages)[i]

NoPairing ==
    LET pairs == buildToolPairs(messages)
    IN \A i \in Positions(messages) : pairs[i] = {}

\* No non-protected record is paired with a protected record.
NoProtectedPartner ==
    LET pairs == buildToolPairs(messages)
    IN \A i \in Positions(messages) :
         ~ProtectedAt(i) => \A j \in pairs[i] : ~ProtectedAt(j)

\* Position i of the input is present in kept (at its place among the kept).
PresentInKept(i) ==
    /\ i \notin toRemove
    /\ LET k == i - Cardinality({ r \in toRemove : r < i })
       IN /\ k < Len(result.kept)
          /\ At(result.kept, k) = At(messages, i)

RECURSIVE IsSubsequence(_, _)
IsSubsequence(sub, s) ==
    IF sub = <<>> THEN TRUE
    ELSE IF s = <<>> THEN FALSE
    ELSE IF Head(sub) = Head(s) THEN IsSubsequence(Tail(sub), Tail(s))
    ELSE IsSubsequence(sub, Tail(s))

ZeroStats == [min |-> 0, max |-> 0, avg |-> [sum |-> 0, count |-> 1]]

(***************************************************************************)
(* C1: in every result of pruneMessages, if position i is removed and i    *)
(* is paired with j, then j is removed too.                                *)
(***************************************************************************)
C1_NoOrphanedPairs ==
    Called => \A i \in toRemove : \A j \in PairedWith(i) : j \in toRemove

(***************************************************************************)
(* C2: every protected position (i < preserveFirst, i >= length -          *)
(* preserveRecent, and the final index) is present in kept.                *)
(***************************************************************************)
C2_ProtectedKept ==
    Called => \A i \in Positions(messages) : ProtectedAt(i) => PresentInKept(i)

\* Something was removed with preserveRecent = 0, while a protected record
\* scores below every removed one and a protected record is paired.
C2_Witness ==
    /\ Called
    /\ config.preserveRecent = 0
    /\ result.removedCount > 0
    /\ \E i \in Positions(messages) :
         ProtectedAt(i) /\ \A r \in toRemove : ScoreAt(i) < ScoreAt(r)
    /\ PairedWith(Total - 1) # {}

(***************************************************************************)
(* C3 as stated: on a sequence longer than the effective target the kept   *)
(* sequence has at most effective-target records.                          *)
(***************************************************************************)
C3_KeptWithinTarget ==
    (Called /\ Total > StatedTarget) =>
        /\ Len(result.kept) <= StatedTarget
        /\ result.removedCount >= result.originalCount - StatedTarget

(***************************************************************************)
(* C3 amended: on a sequence longer than the effective target in which no  *)
(* non-protected record is paired with a protected record, the kept        *)
(* sequence has at most effective-target records.                          *)
(***************************************************************************)
C3_KeptWithinTargetUnlessSkipped ==
    (Called /\ Total > StatedTarget /\ NoProtectedPartner) =>
        /\ Len(result.kept) <= StatedTarget
        /\ result.removedCount >= result.originalCount - StatedTarget

\* A sequence with pairs, none of them reaching a protected record, was
\* pruned and a pair was removed.
C3_Witness ==
    /\ Called
    /\ Total > StatedTarget
    /\ NoProtectedPartner
    /\ \E i \in toRemove : PairedWith(i) # {}
    /\ Len(result.kept) <= StatedTarget

(***************************************************************************)
(* C4: kept.length + removedCount = originalCount, originalCount is the    *)
(* input length, and kept is a subsequence of the input.                   *)
(***************************************************************************)
C4_Partition ==
    Called =>
        /\ Len(result.kept) + result.removedCount = result.originalCount
        /\ result.originalCount = Len(messages)
        /\ IsSubsequence(result.kept, messages)

\* A removed record lies between two kept ones, the first position is gone.
C4_Witness ==
    /\ Called
    /\ 0 \in toRemove
    /\ \E i \in toRemove : \E j, k \in Positions(messages) \ toRemove :
         j < i /\ i < k
    /\ Len(result.kept) = Total - Cardinality(toRemove)

(***************************************************************************)
(* C5: on an empty sequence or one at or below the effective target,       *)
(* removedCount = 0, the removed-score statistics are all 0 and kept is    *)
(* the input.                                                              *)
(***************************************************************************)
C5_NoOpAtOrBelowTarget ==
    (Called /\ (Total = 0 \/ Total <= StatedTarget)) =>
        /\ result.removedCount = 0
        /\ result.removedScores = ZeroStats
        /\ result.kept = messages

\* A non-empty sequence exactly at the floor preserveFirst+preserveRecent+1,
\* above round(target / aggressiveness), came back unchanged.
C5_Witness ==
    /\ Called
    /\ Total > 0
    /\ Total = StatedTarget
    /\ Total > MathRoundDiv(config.targetMessages, aggressiveness)
    /\ result.kept = messages

(***************************************************************************)
(* C6 as stated: if any removed record has a score at or above             *)
(* minImportance, then every non-protected record scoring below            *)
(* minImportance has been removed.                                         *)
(***************************************************************************)
C6_BelowMinFirst ==
    Called =>
        ((\E r \in toRemove : ScoreAt(r) >= config.minImportance) =>
            \A i \in Positions(messages) :
                (~ProtectedAt(i) /\ ScoreAt(i) < config.minImportance)
                    => i \in toRemove)

(***************************************************************************)
(* C6 amended: if any removed record that is not paired has a score at or  *)
(* above minImportance, then every non-protected record scoring below      *)
(* minImportance and not paired with a protected record has been removed.  *)
(***************************************************************************)
C6_BelowMinFirstAmongRemovable ==
    Called =>
        ((\E r \in toRemove :
             PairedWith(r) = {} /\ ScoreAt(r) >= config.minImportance) =>
            \A i \in Positions(messages) :
                (/\ ~ProtectedAt(i)
                 /\ ScoreAt(i) < config.minImportance
                 /\ \A j \in PairedWith(i) : ~ProtectedAt(j))
                    => i \in toRemove)

\* An unpaired record at or above the floor was removed, after a record
\* below the floor was removed and another one, paired with a protected
\* record, was passed over.
C6_Witness ==
    /\ Called
    /\ \E r \in toRemove :
         PairedWith(r) = {} /\ ScoreAt(r) >= config.minImportance
    /\ \E i \in toRemove : ScoreAt(i) < config.minImportance
    /\ \E i \in Positions(messages) \ toRemove :
         /\ ~ProtectedAt(i)
         /\ ScoreAt(i) < config.minImportance
         /\ \E j \in PairedWith(i) : ProtectedAt(j)

(***************************************************************************)
(* C7: for a sequence with no pairing that is longer than the effective    *)
(* target, exactly originalCount - effectiveTarget records are removed     *)
(* and kept.length = effectiveTarget.                                      *)
(***************************************************************************)
C7_ExactQuotaWithoutPairs ==
    (Called /\ NoPairing /\ Total > StatedTarget) =>
        /\ result.removedCount = result.originalCount - StatedTarget
        /\ Len(result.kept) = StatedTarget

\* 100 generic records under the default policy: 40 removed, 60 kept.
C7_Witness ==
    /\ Called
    /\ messages = ScenarioMessages
    /\ config = DEFAULTS
    /\ aggressiveness = Normal
    /\ result.removedCount = 40
    /\ Len(result.kept) = 60

(***************************************************************************)
(* C8: for a sequence with no pairing, no kept non-protected record has a  *)
(* strictly lower score than any removed record.                           *)
(***************************************************************************)
C8_LowestRemovedFirst ==
    (Called /\ NoPairing) =>
        \A k \in Positions(messages) \ toRemove :
            ~ProtectedAt(k) => \A r \in toRemove : ScoreAt(k) >= ScoreAt(r)

\* Without pairing, records of two different scores were removed and a
\* non-protected record scoring higher than both was kept before them.
C8_Witness ==
    /\ Called
    /\ NoPairing
    /\ \E r1, r2 \in toRemove : ScoreAt(r1) < ScoreAt(r2)
    /\ \E k \in Positions(messages) \ toRemove :
         /\ ~ProtectedAt(k)
         /\ \A r \in toRemove : ScoreAt(k) > ScoreAt(r) /\ k < r

(***************************************************************************)
(* index.ts: register and the before_agent_start hook.                     *)
(***************************************************************************)
MaxConversation == 22

\* The records the host appends, in turn: record n is Script[n % 6].
Script == <<Ack, CallA, OutA, OutA, Short, Chat>>

RawOf(maxM, target, minI, recent, first, auto) ==
    [maxMessages |-> maxM, targetMessages |-> target, minImportance |-> minI,
     preserveRecent |-> recent, preserveFirst |-> first, autoPrune |-> auto]

\* Raw configurations: missing, out-of-range, in-range and conflicting values.
RawInputs ==
    {Undefined} \cup
    { RawOf(maxM, target, minI, recent, first, auto) :
        maxM \in {Other, Num(19), Num(20), Num(200)},
        target \in {Other, Num(5), Num(10), Num(30), Num(100)},
        minI \in {Other, Num(50), Num(150)},
        recent \in {Other, Num(0), Num(1), Num(9), Num(29), Num(59), Num(60), Num(500)},
        first \in {Other, Num(0), Num(1), Num(5), Num(9), Num(58), Num(100)},
        auto \in {Other, Bool(TRUE), Bool(FALSE)} }

\* The plugin configurations the hook is run under.
PluginRawInputs ==
    { Undefined,
      RawOf(Num(20), Num(10), Other, Num(2), Num(1), Other),
      RawOf(Num(20), Num(10), Other, Num(2), Num(1), Bool(FALSE)),
      RawOf(Num(21), Num(15), Num(50), Other, Other, Bool(TRUE)) }

InitConfig ==
    /\ raw \in RawInputs
    /\ config = Undefined
    /\ messages = <<>>
    /\ aggressiveness = Normal
    /\ result = NoResult
    /\ toRemove = {}
    /\ lastState = NoState
    /\ conversation = <<>>
    /\ hookReturn = NoReturn
    /\ message = NoMessage
    /\ messageScore = NoScore

InitPlugin ==
    /\ raw \in PluginRawInputs
    /\ config = Undefined
    /\ messages = <<>>
    /\ aggressiveness = Normal
    /\ result = NoResult
    /\ toRemove = {}
    /\ lastState = NoState
    /\ conversation = <<>>
    /\ hookReturn = NoReturn
    /\ message = NoMessage
    /\ messageScore = NoScore

\* register(api): cfg = resolveConfig(api.pluginConfig); the hooks are
\* installed here, so none runs before it.
Register ==
    /\ config = Undefined
    /\ config' = resolveConfig(raw)
    /\ UNCHANGED <<messages, aggressiveness, result, toRemove, raw, lastState,
                   conversation, hookReturn, message,
                   messageScore>>

\* The host adds a record to the live conversation.
HostAppend ==
    /\ Len(conversation) < MaxConversation
    /\ conversation' =
         Append(conversation, Script[(Len(conversation) % Len(Script)) + 1])
    /\ hookReturn' = NoReturn
    /\ UNCHANGED <<messages, config, aggressiveness, result, toRemove, raw,
                   lastState, message,
                   messageScore>>

\* The handler of before_agent_start, run on event.messages = conversation.
\* It returns nothing or { prependContext: summary }; the summary is held by
\* the numbers it is made of (token estimates left out).
BeforeAgentStart ==
    /\ config # Undefined
    /\ ~hookReturn.returned
    /\ lastState' = [messages |-> conversation, set |-> TRUE]
    /\ IF ~config.autoPrune \/ Len(conversation) <= config.maxMessages
       THEN /\ hookReturn' = [returned |-> TRUE, prependContext |-> FALSE]
            /\ UNCHANGED <<messages, aggressiveness, result, toRemove>>
       ELSE /\ messages' = conversation
            /\ aggressiveness' = Normal
            /\ result' = pruneMessages(conversation, config, Normal)
            /\ toRemove' = selectToRemove(conversation, config, Normal)
            /\ hookReturn' =
                 [returned |-> TRUE, prependContext |-> TRUE,
                  count |-> Len(conversation),
                  threshold |-> config.maxMessages,
                  removedCount |-> result'.removedCount,
                  min |-> result'.removedScores.min,
                  max |-> result'.removedScores.max]
    /\ UNCHANGED <<config, raw, conversation, message,
                   messageScore>>

NextConfig == Register

SpecConfig == InitConfig /\ [][NextConfig]_vars

NextPlugin == Register \/ HostAppend \/ BeforeAgentStart

SpecPlugin == InitPlugin /\ [][NextPlugin]_vars

(***************************************************************************)
(* C9: the policy produced by resolveConfig is mutually consistent for     *)
(* every raw input: maxMessages > targetMessages and preserveFirst +       *)
(* preserveRecent < targetMessages.                                        *)
(***************************************************************************)
C9_ConfigConsistent ==
    config # Undefined =>
        /\ config.maxMessages > config.targetMessages
        /\ config.preserveFirst + config.preserveRecent < config.targetMessages

(***************************************************************************)
(* C10: after before_agent_start has run with autoPrune on over a          *)
(* conversation of more than maxMessages records, the conversation is the  *)
(* pruned one, of at most targetMessages records; otherwise it is the      *)
(* conversation the hook saw.                                              *)
(***************************************************************************)
C10_AutoPruneShrinksConversation ==
    hookReturn.returned =>
        IF config.autoPrune /\ Len(lastState.messages) > config.maxMessages
        THEN /\ conversation =
                  pruneMessages(lastState.messages, config, Normal).kept
             /\ Len(conversation) <= config.targetMessages
        ELSE conversation = lastState.messages

(***************************************************************************)
(* scorer.ts: scoreMessage on one record.  The texts are drawn by what the *)
(* rules read of them; a text that matches a low-value pattern matches no  *)
(* other family and is at most 15 characters long ("good afternoon."), and *)
(* a text of a code block, three inline spans, a decision, an error or a   *)
(* reference is at least 4 characters long ("must", "/a/b").               *)
(***************************************************************************)
\* <<length, trimmed length>>: blank, tiny, just under and at the short
\* limit, padded, long and very long.
TextLengths ==
    { <<3, 0>>, <<10, 10>>, <<19, 19>>, <<20, 20>>, <<501, 19>>,
      <<501, 501>>, <<2001, 2001>> }

FeatureTexts ==
    { [len |-> l[1], trimLen |-> l[2], lowValue |-> FALSE, codeBlock |-> c,
       inlineSpans |-> n, decision |-> d, error |-> e, reference |-> r,
       prefix |-> "text", lines |-> {"text"}] :
        l \in { k \in TextLengths : k[2] > 0 }, c \in BOOLEAN, n \in {0, 3},
        d \in BOOLEAN, e \in BOOLEAN, r \in BOOLEAN }

\* "   "
TextBlank ==
    [EmptyText EXCEPT !.len = 3, !.prefix = "   ", !.lines = {""}]

\* " ok "
TextOkPadded == [TextOk EXCEPT !.len = 4, !.prefix = " ok "]

\* "Good afternoon."
TextGreeting ==
    [TextOk EXCEPT !.len = 15, !.trimLen = 15, !.prefix = "Good afternoon.",
                   !.lines = {"good afternoon."}]

LowValueTexts == {TextOk, TextOkPadded, TextGreeting}

ScoreTexts == FeatureTexts \cup LowValueTexts \cup {TextBlank}

\* content: missing; a string (possibly ""); an array of parts, known by the
\* joined text of its text parts ("" for an empty array or media only).
ScoreContents ==
    {[kind |-> "undefined"]} \cup
    { [kind |-> k, text |-> t] :
        k \in {"string", "parts"}, t \in ScoreTexts \cup {EmptyText} }

ScoreRoles == {"system", "user", "assistant", "tool"}

ScoreMessages ==
    { Message(role, content, "", calls) :
        role \in ScoreRoles, content \in ScoreContents, calls \in {{}, {"a"}} }

InitScore ==
    /\ message \in ScoreMessages
    /\ messageScore = NoScore
    /\ messages = <<>>
    /\ config = Undefined
    /\ aggressiveness = Normal
    /\ result = NoResult
    /\ toRemove = {}
    /\ raw = [given |-> FALSE]
    /\ lastState = NoState
    /\ conversation = <<>>
    /\ hookReturn = NoReturn

\* A call scoreMessage(msg).
CallScoreMessage ==
    /\ messageScore = NoScore
    /\ messageScore' = scoreMessage(message)
    /\ UNCHANGED <<message, messages, config, aggressiveness, result, toRemove,
                   raw, lastState, conversation, hookReturn>>

NextScore == CallScoreMessage

SpecScore == InitScore /\ [][NextScore]_vars

Scored == messageScore # NoScore

\* The record is neither a tool output nor an invocation.
PlainRecord == message.role # "tool" /\ message.tool_calls = {}

(***************************************************************************)
(* C11: a record whose text contains a fenced code block scores at least   *)
(* 0.8, whatever its other content, its role and its tool_calls.           *)
(***************************************************************************)
C11_CodeBlockAtLeast80 ==
    (Scored /\ extractText(message).codeBlock) => messageScore >= 80

\* C11, for records that are neither tool outputs nor invocations: a text
\* with a fenced code block scores at least 0.8 whatever else it matches.
C11_CodeBlockAtLeast80WhenPlain ==
    (Scored /\ extractText(message).codeBlock /\ PlainRecord) => messageScore >= 80

\* A short user text with a code block and a file path, scored 0.9.
C11_Witness ==
    /\ Scored
    /\ PlainRecord
    /\ message.role = "user"
    /\ extractText(message).codeBlock
    /\ extractText(message).reference
    /\ extractText(message).trimLen < 20
    /\ messageScore = 90

(***************************************************************************)
(* C12: a record whose trimmed text matches a low-value pattern scores     *)
(* exactly 0.1, a user's record included.                                  *)
(***************************************************************************)
C12_LowValueExactly10 ==
    (Scored /\ extractText(message).lowValue) => messageScore = 10

\* C12, for records that are neither tool outputs nor invocations: a text
\* matching a low-value pattern scores exactly 0.1, a user's included.
C12_LowValueExactly10WhenPlain ==
    (Scored /\ extractText(message).lowValue /\ PlainRecord) => messageScore = 10

\* A user's " ok " was scored 0.1.
C12_Witness ==
    /\ Scored
    /\ PlainRecord
    /\ message.role = "user"
    /\ extractText(message) = TextOkPadded
    /\ messageScore = 10

MaxRepeatLen == 3

\* "build ok: 13 files": differs from TextOut within the first 200
\* characters, the same line once its digits are normalised.
TextOutAgain == [TextOut EXCEPT !.prefix = "build ok: 13 files"]

\* Two outputs of one line of 300 characters that differ in the last one.
TextLogA ==
    [EmptyText EXCEPT !.len = 300, !.trimLen = 300, !.prefix = "log",
                      !.lines = {"log a"}]

TextLogB == [TextLogA EXCEPT !.lines = {"log b"}]

OutAgain == Message("tool", StringContent(TextOutAgain), "a", {})

OutLogA == Message("tool", StringContent(TextLogA), "a", {})

OutLogB == Message("tool", StringContent(TextLogB), "a", {})

\* a tool output whose content is ""              scores 0.1
OutNone == Message("tool", StringContent(EmptyText), "a", {})

\* a tool output of one image part, no text       scores 0.5
OutImage == Message("tool", [kind |-> "parts", text |-> EmptyText], "a", {})

RepeatKinds == {OutA, OutAgain, OutLogA, OutLogB, OutNone, OutImage, Chat}

RepeatSequences == UNION { [1 .. n -> RepeatKinds] : n \in 0 .. MaxRepeatLen }

InitRepeat ==
    /\ messages \in RepeatSequences
    /\ config \in PruneConfigs
    /\ aggressiveness \in AggressivenessValues
    /\ result = NoResult
    /\ toRemove = {}
    /\ raw = [given |-> FALSE]
    /\ lastState = NoState
    /\ conversation = <<>>
    /\ hookReturn = NoReturn
    /\ message = NoMessage
    /\ messageScore = NoScore

SpecRepeat == InitRepeat /\ [][NextPrune]_vars

\* Positions i - 1 and i hold tool outputs whose texts start alike.
SamePrefix(i) ==
    /\ i >= 1
    /\ At(messages, i).role = "tool"
    /\ At(messages, i - 1).role = "tool"
    /\ extractText(At(messages, i - 1)).prefix
         = extractText(At(messages, i)).prefix

BothNonEmpty(i) ==
    /\ extractText(At(messages, i - 1)).len > 0
    /\ extractText(At(messages, i)).len > 0

\* pruneMessages got as far as scoring the records.
Ranked == Called /\ Total > StatedTarget

\* The later record of the pair at i - 1, i is flagged, the earlier one only
\* if it follows a tool output itself, and the later one's score is at most
\* 0.2 where scores are used.
FlaggedAndCapped(i) ==
    /\ i \in findRepetitiveToolOutputs(messages)
    /\ (i - 1) \in findRepetitiveToolOutputs(messages) =>
           (i >= 2 /\ At(messages, i - 2).role = "tool")
    /\ Ranked =>
           /\ scored(messages, config)[i].score <= 20
           /\ i \in toRemove => result.removedScores.min <= 20

(***************************************************************************)
(* C13: of two adjacent tool outputs whose texts have the same first 200   *)
(* characters, the later is flagged as repetitive (the earlier not on      *)
(* account of this pair) and its score in pruneMessages is at most 0.2.    *)
(***************************************************************************)
C13_RepeatFlaggedAndCapped ==
    Called => \A i \in Positions(messages) : SamePrefix(i) => FlaggedAndCapped(i)

\* C13, for texts that are not empty: of two adjacent tool outputs whose
\* non-empty texts have the same first 200 characters, the later is flagged
\* (the earlier not on account of this pair) and scores at most 0.2.
C13_NonEmptyRepeatFlaggedAndCapped ==
    Called =>
        \A i \in Positions(messages) :
            (SamePrefix(i) /\ BothNonEmpty(i)) => FlaggedAndCapped(i)

\* Two outputs alike in their first 200 characters only: the later one was
\* flagged, the earlier one not, and the later one was removed at 0.2.
C13_Witness ==
    /\ Ranked
    /\ \E i \in Positions(messages) :
         /\ SamePrefix(i)
         /\ BothNonEmpty(i)
         /\ extractText(At(messages, i - 1)).lines
              # extractText(At(messages, i)).lines
         /\ (i - 1) \notin findRepetitiveToolOutputs(messages)
         /\ i \in toRemove
         /\ result.removedScores.min = 20

(***************************************************************************)
(* What the properties of pair clusters and of repeated calls speak of.    *)
(***************************************************************************)
\* originalCount - effectiveTarget
Quota == Total - StatedTarget

\* The pair cluster of position i under the links `pairs`: an invocation and
\* all of its results; a record without pairing is a cluster of its own.
ClusterOf(i, pairs) ==
    {i} \cup pairs[i] \cup UNION { pairs[j] : j \in pairs[i] }

\* a1 <= a2, both fractions num/den
AtMost(a1, a2) == a1.num * a2.den <= a2.num * a1.den

(***************************************************************************)
(* C15: when no non-protected record is paired with a protected one and    *)
(* the sequence is longer than the effective target, a removed record's    *)
(* whole pair cluster is removed with it and quota <= removedCount <       *)
(* quota + the size of the largest pair cluster.                           *)
(***************************************************************************)
C15_WholeClustersBoundedOvershoot ==
    (Called /\ NoProtectedPartner /\ Total > StatedTarget) =>
        LET pairs == buildToolPairs(messages)
            sizes == { Cardinality(ClusterOf(i, pairs)) : i \in Positions(messages) }
            largest == CHOOSE n \in sizes : \A k \in sizes : k <= n
        IN /\ \A i \in toRemove : ClusterOf(i, pairs) \subseteq toRemove
           /\ Quota <= result.removedCount
           /\ result.removedCount < Quota + largest

\* An invocation with two results was removed whole, two past the quota.
C15_Witness ==
    /\ Called
    /\ NoProtectedPartner
    /\ Total > StatedTarget
    /\ \E i \in toRemove :
         /\ Cardinality(ClusterOf(i, buildToolPairs(messages))) = 3
         /\ ClusterOf(i, buildToolPairs(messages)) \subseteq toRemove
    /\ result.removedCount = Quota + 2

(***************************************************************************)
(* C16: for aggressiveness a1 <= a2 on the same sequence and policy, the   *)
(* effective target under a2 is at most that under a1 and at least         *)
(* preserveFirst + preserveRecent + 1, and every position removed under a1 *)
(* is removed under a2.  (Nothing is to compare where a2 is a1 or nothing  *)
(* was removed under a1.)                                                  *)
(***************************************************************************)
C16_MonotoneInAggressiveness ==
    Called =>
        \A a2 \in AggressivenessValues :
            AtMost(aggressiveness, a2) =>
                /\ effectiveTarget(config, a2)
                     <= effectiveTarget(config, aggressiveness)
                /\ effectiveTarget(config, a2)
                     >= config.preserveFirst + config.preserveRecent + 1
                /\ \/ a2 = aggressiveness
                   \/ toRemove = {}
                   \/ toRemove \subseteq selectToRemove(messages, config, a2)

\* The call removed a paired record, and a larger aggressiveness has a
\* smaller effective target and removes more.
C16_Witness ==
    /\ Called
    /\ \E i \in toRemove : PairedWith(i) # {}
    /\ \E a2 \in AggressivenessValues :
         /\ AtMost(aggressiveness, a2)
         /\ effectiveTarget(config, a2) < effectiveTarget(config, aggressiveness)
         /\ toRemove # selectToRemove(messages, config, a2)
         /\ toRemove \subseteq selectToRemove(messages, config, a2)

(***************************************************************************)
(* C17: pruneMessages called again on the kept sequence, with the same     *)
(* policy and aggressiveness, removes nothing and keeps it unchanged, also *)
(* when the first call fell short of the quota.                            *)
(***************************************************************************)
C17_Idempotent ==
    Called =>
        LET again == pruneMessages(result.kept, config, aggressiveness)
        IN /\ again.removedCount = 0
           /\ again.kept = result.kept

\* The first call removed a record and fell short of the quota, a candidate
\* paired with a protected record having been skipped; the kept sequence is
\* longer than the effective target.
C17_Witness ==
    /\ Called
    /\ result.removedCount > 0
    /\ result.removedCount < Quota
    /\ Len(result.kept) > effectiveTarget(config, aggressiveness)
    /\ ~NoProtectedPartner

====
